---- MODULE Spec2Model ----
(***************************************************************************)
(* gpumon.py: the sampling-and-publishing cycle of the GPU monitor.        *)
(*                                                                         *)
(* The model follows main() statement by statement.  pc is the position    *)
(* of the single thread of control; the program variables keep the names  *)
(* they have in the source.  Text is a sequence of one-character strings,  *)
(* so that str(), the f-string formatting, float() and int() are computed  *)
(* and not assumed.  Units: power readings are milliwatts as NVML returns  *)
(* them, a formatted power is hundredths of a watt, host percentages are   *)
(* tenths of a percent, clock readings are milliseconds.                   *)
(*                                                                         *)
(* handleError(err) is resolved by "from pynvml import *"; it is taken to  *)
(* return the diagnostic text, so the except blocks run to their end.      *)
(* A termination signal is the one the interpreter turns into an           *)
(* exception in the main thread (KeyboardInterrupt).                       *)
(***************************************************************************)
EXTENDS Integers, Sequences, FiniteSets, TLC

MaxDevices == 2

\* the floor of the CPU sampling window, 0.1 s, in milliseconds
CpuFloor == 100

-----------------------------------------------------------------------------
(* Values the environment can hand to the program.                         *)

PowerReadings == {75254}
TempReadings == {65}
UtilReadings == {[gpu |-> 37, memory |-> 12]}
CpuReadings == {125}
MemReadings == {401}
StartClock == {1000}
EndClock == {900, 1000, 1300}

Fail == [ok |-> FALSE]
Ok(v) == [ok |-> TRUE, v |-> v]

None == [isNone |-> TRUE]

-----------------------------------------------------------------------------
(* Text and number conversions.                                            *)

DigitChars == <<"0", "1", "2", "3", "4", "5", "6", "7", "8", "9">>

Digit(d) == DigitChars[d + 1]

DigitVal(c) == CHOOSE d \in 0..9 : DigitChars[d + 1] = c

RECURSIVE StrOfNat(_)
StrOfNat(n) == IF n < 10 THEN <<Digit(n)>>
               ELSE StrOfNat(n \div 10) \o <<Digit(n % 10)>>

\* f"{mw / 1000.0:.2f}": two decimals, rounded to the nearest hundredth
FormatPower(mw) ==
    LET c == (mw + 5) \div 10
    IN  StrOfNat(c \div 100) \o <<".">> \o <<Digit((c % 100) \div 10), Digit(c % 10)>>

\* str() of a float with one decimal, as psutil returns percentages
StrOfTenths(t) == StrOfNat(t \div 10) \o <<".">> \o <<Digit(t % 10)>>

RECURSIVE NatOfStr(_)
NatOfStr(s) == IF Len(s) = 0 THEN 0
               ELSE 10 * NatOfStr(SubSeq(s, 1, Len(s) - 1)) + DigitVal(s[Len(s)])

IndexOf(s, c) == IF \E k \in 1..Len(s) : s[k] = c
                 THEN CHOOSE k \in 1..Len(s) : s[k] = c /\ \A j \in 1..(k - 1) : s[j] # c
                 ELSE 0

\* int(temp)
IntOf(s) == NatOfStr(s)

\* float(powDrawStr), in hundredths
FloatOf(s) ==
    LET p == IndexOf(s, ".")
    IN  IF p = 0 THEN 100 * NatOfStr(s)
        ELSE LET frac == SubSeq(s, p + 1, Len(s))
             IN  100 * NatOfStr(SubSeq(s, 1, p - 1))
                 + (IF Len(frac) = 0 THEN 0
                    ELSE IF Len(frac) = 1 THEN 10 * NatOfStr(frac)
                    ELSE NatOfStr(SubSeq(frac, 1, 2)))

RECURSIVE Join(_, _)
Join(fields, sep) == IF Len(fields) = 0 THEN <<>>
                     ELSE IF Len(fields) = 1 THEN fields[1]
                     ELSE fields[1] \o <<sep>> \o Join(Tail(fields), sep)

RECURSIVE Split(_, _)
Split(s, sep) ==
    LET p == IndexOf(s, sep)
    IN  IF p = 0 THEN <<s>>
        ELSE <<SubSeq(s, 1, p - 1)>> \o Split(SubSeq(s, p + 1, Len(s)), sep)

Max(a, b) == IF a >= b THEN a ELSE b

-----------------------------------------------------------------------------
(* Configuration and identity, fixed for the run.                          *)

\* --store_reso, default
store_reso == 60

my_NameSpace == "UsageMetrics"

Devices == 0..(MaxDevices - 1)

Metrics == {"power", "temp", "util"}

NotAsked == [ok |-> FALSE, asked |-> FALSE]

VARIABLES
    pc,                  \* position of the thread of control in main()
    exc,                 \* the exception propagating out of the try block
    nvmlLog,             \* nvmlInit / nvmlShutdown calls made so far
    deviceCount, i, handle,
    PUSH_TO_CW,
    powDrawStr, temp, util, gpu_util, mem_util,
    start_time, end_time, gpu_collection_time, cpu_interval,
    cpu_util, ec2_mem_util,
    file,                \* lines appended to TMP_FILE_SAVED in this cycle
    writes,              \* attempts to append in this cycle
    cw,                  \* put_metric_data calls made in this cycle
    cpuCalls,            \* intervals passed to psutil.cpu_percent in this cycle
    memCalls,            \* psutil.virtual_memory calls in this cycle
    queries,             \* device and host queries made in this cycle, in order
    p1fail,              \* some device query of the first pass raised NVMLError
    reads                \* what the second pass's device queries returned

locals == <<powDrawStr, temp, util, gpu_util, mem_util>>
timing == <<start_time, end_time, gpu_collection_time, cpu_interval>>
host == <<cpu_util, ec2_mem_util>>
history == <<file, writes, cw, cpuCalls, memCalls, queries, p1fail, reads>>
vars == <<pc, exc, nvmlLog, deviceCount, i, handle, PUSH_TO_CW, locals, timing,
          host, history>>

NoReads == [d \in Devices |-> [m \in Metrics |-> NotAsked]]

Init ==
    /\ pc = "nvmlInit"
    /\ exc = [type |-> "none", at |-> "none"]
    /\ nvmlLog = <<>>
    /\ deviceCount = 0 /\ i = 0 /\ handle = 0
    /\ PUSH_TO_CW = TRUE
    /\ powDrawStr = <<>> /\ temp = <<>> /\ util = None
    /\ gpu_util = <<>> /\ mem_util = <<>>
    /\ start_time = 0 /\ end_time = 0 /\ gpu_collection_time = 0
    /\ cpu_interval = 0
    /\ cpu_util = 0 /\ ec2_mem_util = 0
    /\ file = <<>> /\ writes = <<>> /\ cw = <<>>
    /\ cpuCalls = <<>> /\ memCalls = <<>> /\ queries = <<>>
    /\ p1fail = FALSE /\ reads = NoReads

-----------------------------------------------------------------------------
(* Exceptions: the try of main() has a finally and no except.              *)

RaiseSkippingFinally(e) == pc' = "exited" /\ exc' = [type |-> e, at |-> pc]

Raise(e) == pc' = "finally" /\ exc' = [type |-> e, at |-> pc]

Results(S) == {Fail} \cup {Ok(v) : v \in S}

\* what the environment saw of a device query
Observe(pass, m, r) ==
    /\ queries' = Append(queries, [call |-> m, pass |-> pass, dev |-> i])
    /\ p1fail' = (p1fail \/ (pass = 1 /\ ~r.ok))
    /\ reads' = IF pass = 2
                THEN [reads EXCEPT ![i][m] = [ok |-> r.ok, asked |-> TRUE, r |-> r]]
                ELSE reads

-----------------------------------------------------------------------------
(* The device queries, gpumon.py lines 77-109.  Each is one call: the      *)
(* NVML query, then either the formatted value or the except block.        *)

PowerOnErrorKeepsFlag == powDrawStr' = <<"0">> /\ UNCHANGED PUSH_TO_CW

PowerOnError == powDrawStr' = <<"0">> /\ PUSH_TO_CW' = FALSE

PowerOnSuccessSetsFlag(mw) == powDrawStr' = FormatPower(mw) /\ PUSH_TO_CW' = TRUE

PowerOnSuccess(mw) == powDrawStr' = FormatPower(mw) /\ UNCHANGED PUSH_TO_CW

getPowerDraw(pass) ==
    \E r \in Results(PowerReadings) :
        /\ IF r.ok THEN PowerOnSuccess(r.v) ELSE PowerOnError
        /\ Observe(pass, "power", r)

TempOnErrorKeepsDiagnostic == temp' = <<"N", "/", "A">> /\ PUSH_TO_CW' = FALSE

TempOnError == temp' = <<"0">> /\ PUSH_TO_CW' = FALSE

getTemp(pass) ==
    \E r \in Results(TempReadings) :
        /\ IF r.ok THEN temp' = StrOfNat(r.v) /\ UNCHANGED PUSH_TO_CW
                   ELSE TempOnError
        /\ Observe(pass, "temp", r)

UtilOnError ==
    /\ util' = None /\ gpu_util' = <<"0">> /\ mem_util' = <<"0">>
    /\ PUSH_TO_CW' = FALSE

getUtilization(pass) ==
    \E r \in Results(UtilReadings) :
        /\ IF r.ok
           THEN /\ util' = [isNone |-> FALSE, gpu |-> r.v.gpu, memory |-> r.v.memory]
                /\ gpu_util' = StrOfNat(r.v.gpu)
                /\ mem_util' = StrOfNat(r.v.memory)
                /\ UNCHANGED PUSH_TO_CW
           ELSE UtilOnError
        /\ Observe(pass, "util", r)

-----------------------------------------------------------------------------
(* main(), lines 233-279.                                                  *)

NvmlInit ==
    /\ pc = "nvmlInit"
    /\ \/ /\ nvmlLog' = Append(nvmlLog, "nvmlInit")
          /\ pc' = "getCount"
          /\ UNCHANGED exc
       \/ /\ nvmlLog' = Append(nvmlLog, "nvmlInit failed")
          /\ Raise("NVMLError")
    /\ UNCHANGED <<deviceCount, i, handle, PUSH_TO_CW, locals, timing, host, history>>

NvmlDeviceGetCount ==
    /\ pc = "getCount"
    /\ \E n \in 0..MaxDevices : deviceCount' = n
    /\ pc' = "reset"
    /\ UNCHANGED <<exc, nvmlLog, i, handle, PUSH_TO_CW, locals, timing, host, history>>

CycleResetKeepsFlag ==
    /\ pc = "reset"
    /\ PUSH_TO_CW' = PUSH_TO_CW
    /\ file' = <<>> /\ writes' = <<>> /\ cw' = <<>>
    /\ cpuCalls' = <<>> /\ memCalls' = <<>> /\ queries' = <<>>
    /\ p1fail' = FALSE /\ reads' = NoReads
    /\ pc' = "start_time"
    /\ UNCHANGED <<exc, nvmlLog, deviceCount, i, handle, locals, timing, host>>

\* line 239, the start of a cycle; the records of the cycle before are dropped
CycleReset ==
    /\ pc = "reset"
    /\ PUSH_TO_CW' = TRUE
    /\ file' = <<>> /\ writes' = <<>> /\ cw' = <<>>
    /\ cpuCalls' = <<>> /\ memCalls' = <<>> /\ queries' = <<>>
    /\ p1fail' = FALSE /\ reads' = NoReads
    /\ pc' = "start_time"
    /\ UNCHANGED <<exc, nvmlLog, deviceCount, i, handle, locals, timing, host>>

StartTimerEntersLoop ==
    /\ pc = "start_time"
    /\ \E t \in StartClock : start_time' = t
    /\ i' = 0 /\ pc' = "p1_handle"
    /\ UNCHANGED <<exc, nvmlLog, deviceCount, handle, PUSH_TO_CW, locals,
                   end_time, gpu_collection_time, cpu_interval, host, history>>

\* line 242, and the entry of the first for loop
StartTimer ==
    /\ pc = "start_time"
    /\ \E t \in StartClock : start_time' = t
    /\ IF deviceCount > 0 THEN i' = 0 /\ pc' = "p1_handle"
                          ELSE i' = i /\ pc' = "end_time"
    /\ UNCHANGED <<exc, nvmlLog, deviceCount, handle, PUSH_TO_CW, locals,
                   end_time, gpu_collection_time, cpu_interval, host, history>>

\* nvmlDeviceGetHandleByIndex(i), lines 244 and 262: not inside any try but main's
GetHandle(at, next) ==
    /\ pc = at
    /\ \/ handle' = i /\ pc' = next /\ UNCHANGED exc
       \/ Raise("NVMLError") /\ UNCHANGED handle
    /\ UNCHANGED <<nvmlLog, deviceCount, i, PUSH_TO_CW, locals, timing, host, history>>

P1Handle == GetHandle("p1_handle", "p1_power")

P1Power ==
    /\ pc = "p1_power"
    /\ getPowerDraw(1)
    /\ pc' = "p1_temp"
    /\ UNCHANGED <<exc, nvmlLog, deviceCount, i, handle, temp, util, gpu_util,
                   mem_util, timing, host, file, writes, cw, cpuCalls, memCalls>>

P1Temp ==
    /\ pc = "p1_temp"
    /\ getTemp(1)
    /\ pc' = "p1_util"
    /\ UNCHANGED <<exc, nvmlLog, deviceCount, i, handle, powDrawStr, util, gpu_util,
                   mem_util, timing, host, file, writes, cw, cpuCalls, memCalls>>

NextDeviceSkipsOne(again, after) ==
    IF i + 2 < deviceCount THEN i' = i + 2 /\ pc' = again
                           ELSE i' = i /\ pc' = after

\* for i in range(deviceCount), lines 243 and 261: the step to the next index
NextDevice(again, after) ==
    IF i + 1 < deviceCount THEN i' = i + 1 /\ pc' = again
                           ELSE i' = i /\ pc' = after

\* line 247, and the step of the first for loop
P1Util ==
    /\ pc = "p1_util"
    /\ getUtilization(1)
    /\ NextDevice("p1_handle", "end_time")
    /\ UNCHANGED <<exc, nvmlLog, deviceCount, handle, powDrawStr, temp,
                   timing, host, file, writes, cw, cpuCalls, memCalls>>

CpuIntervalUnclamped(elapsed) == elapsed

\* line 254
CpuInterval(elapsed) == Max(CpuFloor, elapsed)

\* lines 248-254
EndTimer ==
    /\ pc = "end_time"
    /\ \E t \in EndClock :
        /\ end_time' = t
        /\ gpu_collection_time' = t - start_time
        /\ cpu_interval' = CpuInterval(t - start_time)
    /\ pc' = "cpu"
    /\ UNCHANGED <<exc, nvmlLog, deviceCount, i, handle, PUSH_TO_CW, locals,
                   start_time, host, history>>

\* getCpuUtilization(interval=cpu_interval), lines 112-118 and 255
CpuOnErrorClearsFlag == cpu_util' = 0 /\ PUSH_TO_CW' = FALSE

\* lines 116-118
CpuOnError == cpu_util' = 0 /\ UNCHANGED PUSH_TO_CW

GetCpuUtilization ==
    /\ pc = "cpu"
    /\ cpuCalls' = Append(cpuCalls, cpu_interval)
    /\ \E r \in Results(CpuReadings) :
         /\ IF r.ok THEN cpu_util' = r.v /\ UNCHANGED PUSH_TO_CW ELSE CpuOnError
         /\ queries' = Append(queries, [call |-> "cpu_percent", ok |-> r.ok])
    /\ pc' = "mem"
    /\ UNCHANGED <<exc, nvmlLog, deviceCount, i, handle, locals, timing,
                   ec2_mem_util, file, writes, cw, memCalls, p1fail, reads>>

\* getEc2MemoryUsage(), lines 121-128 and 258, and the entry of the second loop
\* lines 126-128
MemOnError == ec2_mem_util' = 0 /\ UNCHANGED PUSH_TO_CW

GetEc2MemoryUsage ==
    /\ pc = "mem"
    /\ memCalls' = Append(memCalls, "virtual_memory")
    /\ \E r \in Results(MemReadings) :
         /\ IF r.ok THEN ec2_mem_util' = r.v /\ UNCHANGED PUSH_TO_CW ELSE MemOnError
         /\ queries' = Append(queries, [call |-> "virtual_memory", ok |-> r.ok])
    /\ IF deviceCount > 0 THEN i' = 0 /\ pc' = "p2_handle"
                          ELSE i' = i /\ pc' = "sleep"
    /\ UNCHANGED <<exc, nvmlLog, deviceCount, handle, locals, timing,
                   cpu_util, file, writes, cw, cpuCalls, p1fail, reads>>

P2Handle == GetHandle("p2_handle", "p2_power")

P2Power ==
    /\ pc = "p2_power"
    /\ getPowerDraw(2)
    /\ pc' = "p2_temp"
    /\ UNCHANGED <<exc, nvmlLog, deviceCount, i, handle, temp, util, gpu_util,
                   mem_util, timing, host, file, writes, cw, cpuCalls, memCalls>>

P2TempReusesFirstPass ==
    /\ pc = "p2_temp"
    /\ pc' = "p2_util"
    /\ UNCHANGED <<exc, nvmlLog, deviceCount, i, handle, PUSH_TO_CW, locals, timing,
                   host, history>>

P2Temp ==
    /\ pc = "p2_temp"
    /\ getTemp(2)
    /\ pc' = "p2_util"
    /\ UNCHANGED <<exc, nvmlLog, deviceCount, i, handle, powDrawStr, util, gpu_util,
                   mem_util, timing, host, file, writes, cw, cpuCalls, memCalls>>

P2Util ==
    /\ pc = "p2_util"
    /\ getUtilization(2)
    /\ pc' = "write"
    /\ UNCHANGED <<exc, nvmlLog, deviceCount, i, handle, powDrawStr, temp,
                   timing, host, file, writes, cw, cpuCalls, memCalls>>

-----------------------------------------------------------------------------
(* logResults, lines 131-200.                                              *)

\* line 137
writeString ==
    Join(<<StrOfNat(i), gpu_util, mem_util, powDrawStr, temp,
           StrOfTenths(cpu_util), StrOfTenths(ec2_mem_util)>>, ",") \o <<"\n">>

AppendLineIfEligible(ok) ==
    /\ file' = IF ok /\ PUSH_TO_CW THEN Append(file, writeString) ELSE file
    /\ writes' = IF PUSH_TO_CW THEN Append(writes, [dev |-> i, ok |-> ok]) ELSE writes
    /\ UNCHANGED PUSH_TO_CW

AppendLineErrorClearsFlag(ok) ==
    /\ file' = IF ok THEN Append(file, writeString) ELSE file
    /\ writes' = Append(writes, [dev |-> i, ok |-> ok])
    /\ PUSH_TO_CW' = (PUSH_TO_CW /\ ok)

\* lines 134-140: open, write, close; an exception leaves the file as it was
AppendLine(ok) ==
    /\ file' = IF ok THEN Append(file, writeString) ELSE file
    /\ writes' = Append(writes, [dev |-> i, ok |-> ok])
    /\ UNCHANGED PUSH_TO_CW

LogWritePublishesFirst ==
    /\ pc = "write"
    /\ cw' = IF PUSH_TO_CW /\ ~util.isNone
             THEN Append(cw, [dev |-> i, ok |-> TRUE, MetricData |-> <<>>,
                              Namespace |-> my_NameSpace])
             ELSE cw
    /\ pc' = "publish"
    /\ UNCHANGED <<exc, nvmlLog, deviceCount, i, handle, PUSH_TO_CW, locals, timing,
                   host, file, writes, cpuCalls, memCalls, queries, p1fail, reads>>

LogWrite ==
    /\ pc = "write"
    /\ \E ok \in BOOLEAN : AppendLine(ok)
    /\ pc' = "publish"
    /\ UNCHANGED <<exc, nvmlLog, deviceCount, i, handle, locals, timing, host,
                   cw, cpuCalls, memCalls, queries, p1fail, reads>>

MY_DIMENSIONS_WithoutGPUNumber ==
    <<[Name |-> "InstanceId", Value |-> "INSTANCE_ID"],
      [Name |-> "ImageId", Value |-> "IMAGE_ID"],
      [Name |-> "InstanceType", Value |-> "INSTANCE_TYPE"]>>

\* lines 143-148
MY_DIMENSIONS ==
    <<[Name |-> "InstanceId", Value |-> "INSTANCE_ID"],
      [Name |-> "ImageId", Value |-> "IMAGE_ID"],
      [Name |-> "InstanceType", Value |-> "INSTANCE_TYPE"],
      [Name |-> "GPUNumber", Value |-> StrOfNat(i)]>>

Metric(name, unit, value) ==
    [MetricName |-> name, Dimensions |-> MY_DIMENSIONS, Unit |-> unit,
     StorageResolution |-> store_reso, Value |-> value]

\* lines 153-196
MetricData ==
    <<Metric("GPU Usage", "Percent", util.gpu),
      Metric("Memory Usage (GPU)", "Percent", util.memory),
      Metric("Power Usage (Watts)", "None", FloatOf(powDrawStr)),
      Metric("Temperature (C)", "None", IntOf(temp)),
      Metric("CPU Usage", "Percent", cpu_util),
      Metric("Memory Usage (EC2)", "Percent", ec2_mem_util)>>

PutMetricData(ok) ==
    [dev |-> i, ok |-> ok, MetricData |-> MetricData, Namespace |-> my_NameSpace]

SubmitWithRetry ==
    /\ \E ok \in BOOLEAN :
         cw' = IF ok THEN Append(cw, PutMetricData(TRUE))
               ELSE cw \o <<PutMetricData(FALSE), PutMetricData(TRUE)>>
    /\ UNCHANGED <<PUSH_TO_CW, file>>

SubmitErrorClearsFlag ==
    \E ok \in BOOLEAN :
        /\ cw' = Append(cw, PutMetricData(ok))
        /\ PUSH_TO_CW' = ok
        /\ UNCHANGED file

\* lines 150-200: one put_metric_data call, its exception caught and logged
Submit ==
    /\ \E ok \in BOOLEAN : cw' = Append(cw, PutMetricData(ok))
    /\ UNCHANGED <<PUSH_TO_CW, file>>

\* lines 142-200, and the step of the second for loop
LogPublish ==
    /\ pc = "publish"
    /\ IF PUSH_TO_CW
       THEN IF util.isNone
            THEN UNCHANGED <<cw, PUSH_TO_CW, file>>   \* AttributeError, caught
            ELSE Submit
       ELSE UNCHANGED <<cw, PUSH_TO_CW, file>>
    /\ NextDevice("p2_handle", "sleep")
    /\ UNCHANGED <<exc, nvmlLog, deviceCount, handle, locals, timing, host,
                   writes, cpuCalls, memCalls, queries, p1fail, reads>>

\* line 277
Sleep ==
    /\ pc = "sleep"
    /\ pc' = "reset"
    /\ UNCHANGED <<exc, nvmlLog, deviceCount, i, handle, PUSH_TO_CW, locals, timing,
                   host, history>>

\* KeyboardInterrupt: raised between any two steps inside the try; no handler
\* of the file catches it (except NVMLError, except Exception)
Interrupt ==
    /\ pc \notin {"finally", "exited"}
    /\ Raise("KeyboardInterrupt")
    /\ UNCHANGED <<nvmlLog, deviceCount, i, handle, PUSH_TO_CW, locals, timing,
                   host, history>>

\* lines 278-279
NvmlShutdown ==
    /\ pc = "finally"
    /\ nvmlLog' = Append(nvmlLog, "nvmlShutdown")
    /\ pc' = "exited"
    /\ UNCHANGED <<exc, deviceCount, i, handle, PUSH_TO_CW, locals, timing, host,
                   history>>

Next ==
    \/ NvmlInit \/ NvmlDeviceGetCount \/ CycleReset \/ StartTimer
    \/ P1Handle \/ P1Power \/ P1Temp \/ P1Util
    \/ EndTimer \/ GetCpuUtilization \/ GetEc2MemoryUsage
    \/ P2Handle \/ P2Power \/ P2Temp \/ P2Util
    \/ LogWrite \/ LogPublish \/ Sleep
    \/ Interrupt \/ NvmlShutdown

Spec == Init /\ [][Next]_vars

-----------------------------------------------------------------------------
(* Vocabulary of the properties.                                           *)

\* some device query of the current cycle raised NVMLError
QueryFailed ==
    \/ p1fail
    \/ \E d \in Devices, m \in Metrics : reads[d][m].asked /\ ~reads[d][m].ok

\* no device query of the cycle had failed when logResults ran for device d
EligibleAt(d) ==
    /\ ~p1fail
    /\ \A e \in 0..d, m \in Metrics : reads[e][m].ok

\* logResults has returned for device d in the current cycle
Logged(d) ==
    \/ pc = "sleep" /\ d < deviceCount
    \/ pc \in {"p2_handle", "p2_power", "p2_temp", "p2_util", "write", "publish"} /\ d < i

Submitted(d) == \E k \in 1..Len(cw) : cw[k].dev = d

IsOk(w) == w.ok

OkWrites == SelectSeq(writes, IsOk)

FailedWrites == SelectSeq(writes, LAMBDA w : ~w.ok)

Fields(line) == Split(SubSeq(line, 1, Len(line) - 1), ",")

RoundCenti(mw) == (mw + 5) \div 10

-----------------------------------------------------------------------------
\* C1: if any power, temperature or utilization query of any device fails at
\* any point of a cycle, no put_metric_data call is made for any device in
\* that cycle, devices with a lower index than the failing one included.
\* Stated as the claim has it; the second pass publishes device 0 before it
\* queries device 1.
C1_NoPublishInFailedCycle == QueryFailed => cw = <<>>

\* C2, as claimed: at the end of every cycle the number of lines written
\* equals count().
C2_LinesEqualCount == pc = "sleep" => Len(file) = deviceCount

\* C2, amended: a cycle that reaches its sleep has made exactly one attempt to
\* append per device index, in index order, whatever the flag and whatever
\* queries failed, and has written count() lines less the attempts that failed.
C2_OneWriteAttemptPerDevice ==
    pc = "sleep" =>
        /\ Len(writes) = deviceCount
        /\ \A k \in 1..Len(writes) : writes[k].dev = k - 1
        /\ Len(file) = deviceCount - Len(FailedWrites)

C2_Witness ==
    /\ pc = "sleep" /\ deviceCount = 2
    /\ ~PUSH_TO_CW /\ QueryFailed
    /\ Len(file) = 2

\* C3: no error raised by a step inside a cycle (handle lookup, device query,
\* host query, local write, remote publish) leaves the loop.  Stated as the
\* claim has it: the only exceptions that reach main's finally are those of
\* nvmlInit and the termination signal.
C3_NoCycleErrorLeavesLoop ==
    exc.type \notin {"none", "KeyboardInterrupt"} => exc.at = "nvmlInit"

C5_SubmittedValuesAreReadings ==
    \A k \in 1..Len(cw) :
        LET r == reads[cw[k].dev]
            b == cw[k].MetricData
        IN  /\ r["util"].ok /\ r["power"].ok /\ r["temp"].ok
            /\ b[1].Value = r["util"].r.v.gpu
            /\ b[2].Value = r["util"].r.v.memory
            /\ b[3].Value = RoundCenti(r["power"].r.v)
            /\ b[4].Value = r["temp"].r.v

C5_Witness ==
    \E k \in 1..Len(cw) :
        /\ cw[k].dev = 1 /\ cw[k].ok
        /\ cw[k].MetricData[4].Value = 65
        /\ cw[k].MetricData[3].Value = 7525

C7_CpuWindowClamped ==
    \A k \in 1..Len(cpuCalls) :
        /\ cpuCalls[k] >= CpuFloor
        /\ cpuCalls[k] = IF end_time - start_time > CpuFloor
                         THEN end_time - start_time ELSE CpuFloor

C7_Witness ==
    /\ Len(cpuCalls) = 1
    /\ end_time < start_time
    /\ cpuCalls[1] = CpuFloor

\* C8: in one cycle no device has more than one put_metric_data call, failed
\* calls included.
C8_AtMostOneSubmission ==
    \A j, k \in 1..Len(cw) : j # k => cw[j].dev # cw[k].dev

C8_Witness ==
    /\ pc = "sleep" /\ deviceCount = 2
    /\ Len(cw) = 2 /\ ~cw[1].ok /\ ~cw[2].ok

\* C9: after a failed put_metric_data call for device d the flag is still
\* true exactly when no device query has failed, the line written for d is
\* still in the file, and the cycle goes on: at its sleep every device has had
\* its write attempt and every device eligible at its turn its submission.
C9_PublishFailureIsContained ==
    \A k \in 1..Len(cw) :
        ~cw[k].ok =>
            /\ PUSH_TO_CW = ~QueryFailed
            /\ Len(file) = Len(OkWrites)
            /\ \A j \in 1..Len(OkWrites) :
                 OkWrites[j].dev = cw[k].dev => Fields(file[j])[1] = StrOfNat(cw[k].dev)
            /\ pc = "sleep" =>
                 /\ Len(writes) = deviceCount
                 /\ \A d \in 0..(deviceCount - 1) : EligibleAt(d) => Submitted(d)

C9_Witness ==
    /\ pc = "sleep" /\ deviceCount = 2
    /\ Len(cw) = 2 /\ cw[1].dev = 0 /\ ~cw[1].ok /\ cw[2].dev = 1 /\ cw[2].ok
    /\ Len(file) = 2

\* C10: whether a device is submitted depends on the device queries alone: for
\* every device whose append was attempted, failed or not, the submission was
\* attempted exactly when no query had failed by then, and the flag is true
\* exactly when no query has failed.
C10_WriteFailureDoesNotGatePublish ==
    \A k \in 1..Len(writes) :
        /\ PUSH_TO_CW = ~QueryFailed
        /\ Logged(writes[k].dev) => (Submitted(writes[k].dev) <=> EligibleAt(writes[k].dev))

C10_Witness ==
    /\ pc = "sleep" /\ deviceCount = 2
    /\ ~writes[1].ok /\ writes[2].ok
    /\ Submitted(0) /\ Submitted(1)

-----------------------------------------------------------------------------
\* a host query of the current cycle raised
HostFailed(c) == \E k \in 1..Len(queries) : queries[k].call = c /\ ~queries[k].ok

AllSubmitted == \A d \in 0..(deviceCount - 1) : Submitted(d)

\* C11: a failed host CPU or memory query yields 0 for that metric and leaves
\* the flag as the device queries set it; a cycle whose device queries all
\* succeed still submits every device when host queries failed.
C11_HostFailureDoesNotGatePublish ==
    /\ HostFailed("cpu_percent") => cpu_util = 0
    /\ HostFailed("virtual_memory") => ec2_mem_util = 0
    /\ HostFailed("cpu_percent") \/ HostFailed("virtual_memory") =>
         /\ PUSH_TO_CW = ~QueryFailed
         /\ pc = "sleep" /\ ~QueryFailed => AllSubmitted

C11_Witness ==
    /\ pc = "sleep" /\ deviceCount = 2
    /\ HostFailed("cpu_percent") /\ HostFailed("virtual_memory")
    /\ Len(cw) = 2
    /\ cw[1].MetricData[5].Value = 0 /\ cw[2].MetricData[6].Value = 0

\* C12: in every cycle the flag is true until the first device query of that
\* cycle has run, whatever the cycle before did, and a cycle whose queries all
\* succeed submits every device.
C12_FlagResetEachCycle ==
    /\ pc \in {"start_time", "p1_handle", "p1_power", "end_time", "cpu"} /\ queries = <<>>
         => PUSH_TO_CW
    /\ pc = "sleep" /\ ~QueryFailed => AllSubmitted

\* a cycle begins with the flag true while powDrawStr still holds the default
\* of the failed power query that ended the cycle before
C12_Witness ==
    /\ pc = "start_time" /\ deviceCount = 2
    /\ powDrawStr = <<"0">>
    /\ PUSH_TO_CW

\* C13: a device has a put_metric_data call only after its append was
\* attempted, and the thread is at the publish step of device i only with i's
\* append attempt made.
C13_WriteBeforePublish ==
    /\ \A k \in 1..Len(cw) : \E j \in 1..Len(writes) : writes[j].dev = cw[k].dev
    /\ pc = "publish" => Len(writes) = i + 1 /\ writes[i + 1].dev = i

C13_Witness ==
    /\ Len(writes) = 2 /\ ~writes[2].ok
    /\ Len(cw) = 2 /\ cw[2].dev = 1

\* C14: the append attempts of a cycle are for the indices 0, 1, 2, ... in
\* this order with none skipped or repeated, and so are the submissions; a
\* cycle at its sleep has gone through every index below count().
C14_AscendingDeviceOrder ==
    /\ \A k \in 1..Len(writes) : writes[k].dev = k - 1
    /\ \A k \in 1..Len(cw) : cw[k].dev = k - 1
    /\ pc = "sleep" => Len(writes) = deviceCount

C14_Witness ==
    /\ pc = "sleep" /\ deviceCount = 2
    /\ Len(writes) = 2 /\ writes[2].dev = 1
    /\ Len(cw) = 2 /\ cw[2].dev = 1

-----------------------------------------------------------------------------
\* C15: a termination signal arriving while a cycle is in progress does not
\* cut the cycle short.  Stated as the claim has it: the signal ends the run
\* only from a position between two cycles or before the first.
C15_SignalLetsCycleFinish ==
    exc.type = "KeyboardInterrupt" => exc.at \in {"nvmlInit", "getCount", "reset", "sleep"}

MetricNames ==
    <<"GPU Usage", "Memory Usage (GPU)", "Power Usage (Watts)", "Temperature (C)",
      "CPU Usage", "Memory Usage (EC2)">>

HasDimension(m, name, value) ==
    \E x \in 1..Len(m.Dimensions) :
        m.Dimensions[x].Name = name /\ m.Dimensions[x].Value = value

\* C16: a cycle with count() >= 1 whose device queries all succeeded has made,
\* at its sleep, exactly count() put_metric_data calls, the k-th for device
\* k - 1, each with the six metric entries in their order, every entry
\* carrying the dimension GPUNumber = str(k - 1).
C16_OneFullBatchPerDevice ==
    pc = "sleep" /\ ~QueryFailed /\ deviceCount >= 1 =>
        /\ Len(cw) = deviceCount
        /\ \A k \in 1..Len(cw) :
            /\ cw[k].dev = k - 1
            /\ Len(cw[k].MetricData) = 6
            /\ \A n \in 1..6 :
                /\ cw[k].MetricData[n].MetricName = MetricNames[n]
                /\ HasDimension(cw[k].MetricData[n], "GPUNumber", StrOfNat(k - 1))

C16_Witness ==
    /\ pc = "sleep" /\ deviceCount = 2 /\ ~QueryFailed
    /\ Len(cw) = 2 /\ cw[1].ok /\ cw[2].ok
    /\ HasDimension(cw[2].MetricData[6], "GPUNumber", <<"1">>)

\* nvmlDeviceGetCount() has returned 0
ZeroDevices ==
    /\ deviceCount = 0
    /\ Len(nvmlLog) > 0 /\ nvmlLog[1] = "nvmlInit"
    /\ pc # "getCount" /\ exc.at # "getCount"

\* C17: with count() = 0 no line is written, no append attempted and no
\* put_metric_data call made, no device step is entered and no error is raised;
\* a cycle at its sleep has made the host CPU query and the host memory query,
\* once each, and no device query.
C17_NoDevices ==
    ZeroDevices =>
        /\ file = <<>> /\ writes = <<>> /\ cw = <<>>
        /\ pc \notin {"p1_handle", "p1_power", "p1_temp", "p1_util",
                     "p2_handle", "p2_power", "p2_temp", "p2_util", "write", "publish"}
        /\ exc.type # "NVMLError"
        /\ pc = "sleep" =>
             /\ Len(cpuCalls) = 1 /\ Len(memCalls) = 1
             /\ Len(queries) = 2
             /\ queries[1].call = "cpu_percent" /\ queries[2].call = "virtual_memory"

C17_Witness ==
    /\ ZeroDevices /\ pc = "sleep"
    /\ Len(cpuCalls) = 1 /\ Len(memCalls) = 1
    /\ exc.type = "none"

MetricOrder == <<"power", "temp", "util">>

IsQuery(q, k, n) ==
    IF k <= 3 * n
    THEN q.call = MetricOrder[((k - 1) % 3) + 1] /\ q.pass = 1 /\ q.dev = (k - 1) \div 3
    ELSE IF k = 3 * n + 1 THEN q.call = "cpu_percent"
    ELSE IF k = 3 * n + 2 THEN q.call = "virtual_memory"
    ELSE /\ q.call = MetricOrder[((k - 3 * n - 3) % 3) + 1]
         /\ q.pass = 2 /\ q.dev = (k - 3 * n - 3) \div 3


\* C18: the queries of a cycle are, in this order, power, temperature and
\* utilization of every device, the host CPU query, the host memory query, and
\* power, temperature and utilization of every device again: each device
\* metric twice, each host metric once.  The append for the k-th device comes
\* after its second-pass queries; the values of a line and of a batch are
\* those the second pass read, and the host values of every line and batch of
\* the cycle are the cycle's cpu_util and ec2_mem_util.
C18_TwoPassesOneHostSample ==
    /\ \A k \in 1..Len(queries) :
         k <= 6 * deviceCount + 2
         /\ IsQuery(queries[k], k, deviceCount)
    /\ pc = "sleep" => Len(queries) = 6 * deviceCount + 2
    /\ \A k \in 1..Len(writes) : Len(queries) >= 3 * deviceCount + 2 + 3 * k
    /\ \A k \in 1..Len(file) :
        LET r == reads[OkWrites[k].dev]
            f == Fields(file[k])
        IN  /\ r["util"].ok => /\ f[2] = StrOfNat(r["util"].r.v.gpu)
                               /\ f[3] = StrOfNat(r["util"].r.v.memory)
            /\ r["power"].ok => f[4] = FormatPower(r["power"].r.v)
            /\ r["temp"].ok => f[5] = StrOfNat(r["temp"].r.v)
            /\ f[6] = StrOfTenths(cpu_util)
            /\ f[7] = StrOfTenths(ec2_mem_util)
    /\ \A k \in 1..Len(cw) :
        /\ cw[k].MetricData[4].Value = reads[cw[k].dev]["temp"].r.v
        /\ cw[k].MetricData[5].Value = cpu_util
        /\ cw[k].MetricData[6].Value = ec2_mem_util

C18_Witness ==
    /\ pc = "sleep" /\ deviceCount = 2
    /\ Len(queries) = 14
    /\ Len(file) = 2 /\ Len(cw) = 2
    /\ Fields(file[1])[6] = <<"1", "2", ".", "5">>
    /\ Fields(file[2])[6] = <<"1", "2", ".", "5">>

\* C19: nvmlInit is called once, nvmlShutdown at most once and only after
\* nvmlInit has succeeded.  Stated as the claim has it.
C19_TeardownOnlyAfterInit ==
    \A k \in 1..Len(nvmlLog) :
        /\ nvmlLog[k] = "nvmlShutdown" => k = 2 /\ nvmlLog[1] = "nvmlInit"
        /\ nvmlLog[k] # "nvmlShutdown" => k = 1

\* C20: within a cycle the flag is false exactly when a device query of the
\* cycle has failed, so a false flag stays false until the reset and no host
\* query, append or submission sets it; no device is submitted in a cycle
\* with a first-pass failure, and a device is submitted only if no second-pass
\* query of a device with an index up to its own has failed.
C20_FlagFalseOnceAQueryFailed ==
    /\ PUSH_TO_CW = ~QueryFailed
    /\ p1fail => cw = <<>>
    /\ \A k \in 1..Len(cw) : EligibleAt(cw[k].dev)
    /\ \A d \in Devices : Logged(d) /\ ~EligibleAt(d) => ~Submitted(d)

C20_Witness ==
    /\ pc = "sleep" /\ deviceCount = 2
    /\ ~p1fail /\ ~reads[1]["temp"].ok
    /\ Submitted(0) /\ ~Submitted(1)
    /\ ~PUSH_TO_CW

====
